---- MODULE Spec2Model ----
(***************************************************************************)
(* A model of the bitmatch! procedural macro (src/src/lib.rs).             *)
(*                                                                         *)
(* A string is a sequence of characters; a character is a one-element      *)
(* TLA+ string, except "U+00E9" which stands for the character e-acute,    *)
(* whose UTF-8 encoding is two bytes long.  An unsigned integer of type    *)
(* uN is the set of the positions (0 = least significant) of its one-bits, *)
(* so that the 64 and 128 bit types are modelled with their real width.    *)
(***************************************************************************)
EXTENDS Integers, Sequences, FiniteSets, TLC

VARIABLES literal,      \* text of the 1st argument between its quotes
          pattern,      \* `pattern` after line 56
          pc,           \* position in bitmatch / gen_code / emitted code
          width,        \* the $x of the gen_code instance chosen (0: none)
          i,            \* number of characters the loop has consumed
          bit_mask, bit_pattern, args_pos, args_mask, prev, count,
          value,        \* run-time value of the identifier
          result        \* run-time value of the emitted expression

vars == <<literal, pattern, pc, width, i, bit_mask, bit_pattern,
          args_pos, args_mask, prev, count, value, result>>

----------------------------------------------------------------------------
(* Bounds of the model and constants of the program *)

\* longest free part of a generated literal
MaxBody == 2

\* widest unsigned type a value can have (u128)
ValueBits == 128

\* the value of the documentation example, 0xac
DocValue == 172

----------------------------------------------------------------------------
(* Characters and strings *)

Repeat(c, n) == [k \in 1..n |-> c]

Range(s) == {s[k] : k \in 1..Len(s)}

\* number of bytes of the UTF-8 encoding of a character
len_utf8(c) == IF c = "U+00E9" THEN 2 ELSE 1

\* String::len: the length in bytes, the sum of len_utf8 over the
\* characters (an encoding is 1 to 4 bytes long)
str_len(s) ==
    Cardinality({<<k, n>> \in (1..Len(s)) \X (1..4) : n <= len_utf8(s[k])})

NotSpace(c) == c /= " "

\* mutant of replace_space: only the first space is dropped
replace_first_space(s) ==
    IF \E k \in 1..Len(s) : s[k] = " "
    THEN LET k == CHOOSE j \in 1..Len(s) :
                      s[j] = " " /\ \A h \in 1..(j - 1) : s[h] /= " "
         IN SubSeq(s, 1, k - 1) \o SubSeq(s, k + 1, Len(s))
    ELSE s

\* str::replace(" ", ""): every occurrence of the one-character string " "
\* is dropped, every other character is kept, in order
replace_space(s) == SelectSeq(s, NotSpace)

----------------------------------------------------------------------------
(* Unsigned integers of a given width, as sets of bit positions *)

Bits(w) == 0..(w - 1)

\* the bits of a small natural number
OfNat(n) == {b \in 0..30 : (n \div (2 ^ b)) % 2 = 1}

\* x <<= 1 on a w-bit integer: the top bit is lost
shl1(x, w) == {b + 1 : b \in x} \cap Bits(w)

\* x |= 1
or1(x) == x \cup {0}

\* x >> n
shr(x, n) == {b - n : b \in {c \in x : c >= n}}

\* v as $x: truncation (or zero extension) to w bits
as_uint(v, w) == v \cap Bits(w)

\* n as $x for a usize n
usize_as(n, w) == IF w = 8 THEN n % 256 ELSE n

RECURSIVE shift_in_ones(_, _, _)
\* lines 129-132 and 148-151: `mask <<= 1; mask |= 1` done n times on the
\* w-bit mask x (the second half of the iterations starts from the result
\* of the first half, which always holds bit 0)
shift_in_ones(x, n, w) ==
    IF n = 0 THEN x
    ELSE IF n = 1 THEN or1(shl1(x, w))
    ELSE LET h == n \div 2
             mid == shift_in_ones(x, h, w)
         IN IF 0 \in mid THEN shift_in_ones(mid, n - h, w) ELSE mid

\* lines 128-132 and 147-151: the mask of a field of `n` characters
ones(n, w) == shift_in_ones({}, n, w)

----------------------------------------------------------------------------
(* bitmatch: lines 55-88 *)

\* the match on pattern.len(): the width of the gen_code instance, 0 = panic
dispatch(n) ==
    IF n >= 1 /\ n <= 8 THEN 8
    ELSE IF n >= 9 /\ n <= 16 THEN 16
    ELSE IF n >= 17 /\ n <= 32 THEN 32
    ELSE IF n >= 33 /\ n <= 64 THEN 64
    ELSE IF n >= 65 /\ n <= 128 THEN 128
    ELSE 0

IsLabel(c) == c /= "0" /\ c /= "1" /\ c /= "_"

----------------------------------------------------------------------------
(* gen_code: the scan, as a function on the loop's variables *)

\* lines 95-102
scan_init ==
    [i |-> 0, bit_mask |-> {}, bit_pattern |-> {},
     args_pos |-> <<>>, args_mask |-> <<>>, prev |-> <<>>, count |-> 0]

\* mutant of mask_bit: a don't-care bit is checked as a zero
mask_bit_dontcare(bit, m) ==
    IF bit = "0" \/ bit = "1" \/ bit = "_" THEN or1(m) ELSE m

\* lines 105-124: the new low bit of bit_mask
mask_bit(bit, m) == IF bit = "0" \/ bit = "1" THEN or1(m) ELSE m

\* mutant of pattern_bit: a don't-care bit sets the expected bit
pattern_bit_dontcare(bit, p) ==
    IF bit = "1" \/ bit = "_" THEN or1(p) ELSE p

\* lines 105-124: the new low bit of bit_pattern
pattern_bit(bit, p) == IF bit = "1" THEN or1(p) ELSE p

\* line 126: the run that ended before `bit` is a field
closes_field(x, bit) == x /= bit /\ x /= "0" /\ x /= "1" /\ x /= "_"

\* line 127
field_pos(plen, idx, w) == usize_as(plen - idx, w)

\* mutant of count_after: count is reset only when a field is closed
count_after_label_only(s, bit) ==
    IF s.prev = <<>> THEN s.count
    ELSE IF closes_field(s.prev[1], bit) THEN 0
    ELSE s.count

\* lines 125-140: count after the `if let Some(x) = prev` block
count_after(s, bit) ==
    IF s.prev = <<>> THEN s.count
    ELSE IF closes_field(s.prev[1], bit) THEN 0
    ELSE IF s.prev[1] /= bit THEN 0
    ELSE s.count

\* lines 104-143: one iteration of the loop, on character `bit`;
\* plen is pattern.len(), w the width of $x
scan_step(s, bit, plen, w) ==
    LET closing == s.prev /= <<>> /\ closes_field(s.prev[1], bit)
    IN [i |-> s.i + 1,
        bit_mask |-> mask_bit(bit, shl1(s.bit_mask, w)),
        bit_pattern |-> pattern_bit(bit, shl1(s.bit_pattern, w)),
        args_pos |-> IF closing
                     THEN Append(s.args_pos, field_pos(plen, s.i, w))
                     ELSE s.args_pos,
        args_mask |-> IF closing
                      THEN Append(s.args_mask, ones(s.count, w))
                      ELSE s.args_mask,
        prev |-> <<bit>>,
        count |-> count_after(s, bit) + 1]

\* lines 144-155: the run still open when the loop ends
scan_end(s, w) ==
    IF s.prev /= <<>> /\ IsLabel(s.prev[1])
    THEN [s EXCEPT !.args_pos = Append(@, usize_as(0, w)),
                   !.args_mask = Append(@, ones(s.count, w))]
    ELSE s

RECURSIVE scan_fold(_, _, _, _)
\* lines 104-143: the whole loop over the characters `rest`
scan_fold(s, rest, plen, w) ==
    IF rest = <<>> THEN s
    ELSE IF Len(rest) = 1 THEN scan_step(s, rest[1], plen, w)
    ELSE LET h == Len(rest) \div 2
             mid == scan_fold(s, SubSeq(rest, 1, h), plen, w)
         IN IF mid.i = s.i + h
            THEN scan_fold(mid, SubSeq(rest, h + 1, Len(rest)), plen, w)
            ELSE mid

\* what a call of the macro compiles to: the width and the interpolated
\* #bit_mask, #bit_pattern, #args_pos, #args_mask
MakePlan(w, s) ==
    [width |-> w, bit_mask |-> s.bit_mask, bit_pattern |-> s.bit_pattern,
     args_pos |-> s.args_pos, args_mask |-> s.args_mask]

\* lines 94-155 as a function of the stripped pattern
gen_code(p, w) ==
    MakePlan(w, scan_end(scan_fold(scan_init, p, str_len(p), w), w))

\* lines 79-88 as a function of the stripped pattern; width 0 is the panic
compile_pattern(p) ==
    LET w == dispatch(str_len(p))
    IN IF w = 0 THEN MakePlan(0, scan_init) ELSE gen_code(p, w)

\* lines 55-88 as a function of the literal
compile(lit) == compile_pattern(replace_space(lit))

----------------------------------------------------------------------------
(* The emitted expression: lines 157-169 *)

\* `#ident as $x & #bit_mask == #bit_pattern`
test(v, w, m, p) == (as_uint(v, w) \cap m) = p

\* `(#ident as $x >> #args_pos) & #args_mask`
extract(v, w, pos, m) == shr(as_uint(v, w), pos) \cap m

\* `Some(( e1, ..., en ))`: () for no expression, the parenthesised
\* expression for one, a tuple otherwise
shape(n) == IF n = 0 THEN "unit" ELSE IF n = 1 THEN "scalar" ELSE "tuple"

\* the value of the emitted expression for a value v of the identifier;
\* a shift by the type's width or more does not evaluate
emitted(v, w, m, p, pos, masks) ==
    IF \E k \in 1..Len(pos) : pos[k] >= w
    THEN [tag |-> "overflow", shape |-> "none", fields |-> <<>>]
    ELSE IF test(v, w, m, p)
    THEN [tag |-> "Some", shape |-> shape(Len(pos)),
          fields |-> [k \in 1..Len(pos) |-> extract(v, w, pos[k], masks[k])]]
    ELSE [tag |-> "None", shape |-> "none", fields |-> <<>>]

NoResult == [tag |-> "unset", shape |-> "none", fields |-> <<>>]

----------------------------------------------------------------------------
(* Inputs *)

Chars == {"0", "1", "_", "a", "b", "U+00E9", " ", "\t"}

RECURSIVE Strings(_)
\* the strings of at most n characters
Strings(n) ==
    IF n = 0 THEN {<<>>}
    ELSE LET shorter == Strings(n - 1)
         IN shorter \cup {<<c>> \o s : c \in Chars,
                                       s \in {t \in shorter : Len(t) = n - 1}}

\* a generated literal is a run of one character followed by a free part;
\* the run lengths put the length of the pattern on both sides of each
\* boundary of the match on pattern.len()
PadRuns == {<<"a", 0>>, <<"a", 7>>, <<"1", 7>>, <<"U+00E9", 7>>,
            <<"a", 15>>, <<"a", 31>>, <<"a", 63>>, <<"a", 127>>}

\* the literals of the documentation example, lines 16-34
DocLiterals ==
    { <<"1","0","1","0"," ","1","1","0","0">>,
      <<"1","0","1","0"," ","0","1","0","0">>,
      <<"1","_","1","0"," ","1","_","0","0">>,
      <<"1","a","1","0"," ","1","1","0","0">>,
      <<"1","0","a","0"," ","1","1","0","0">>,
      <<"1","a","a","a"," ","a","1","0","0">>,
      <<"1","a","a","0"," ","a","a","0","0">>,
      <<"1","a","a","b"," ","b","c","c","c">> }

Literals ==
    DocLiterals \cup
    {Repeat(p[1], p[2]) \o body : p \in PadRuns, body \in Strings(MaxBody)}

\* the values the identifier is given: every setting of the low bits, with
\* the bits above them clear, set, or set from the chosen width upwards
Values(w) ==
    {OfNat(DocValue)} \cup
    {lo \cup hi : lo \in SUBSET (0..MaxBody),
                  hi \in {{}, (MaxBody + 1)..(ValueBits - 1),
                          w..(ValueBits - 1)}}

----------------------------------------------------------------------------
(* The state machine *)

Init ==
    /\ literal \in Literals
    /\ pattern = <<>>
    /\ pc = "bitmatch"
    /\ width = 0
    /\ i = 0
    /\ bit_mask = {}
    /\ bit_pattern = {}
    /\ args_pos = <<>>
    /\ args_mask = <<>>
    /\ prev = <<>>
    /\ count = 0
    /\ value = {}
    /\ result = NoResult

Loop == [i |-> i, bit_mask |-> bit_mask, bit_pattern |-> bit_pattern,
         args_pos |-> args_pos, args_mask |-> args_mask,
         prev |-> prev, count |-> count]

SetLoop(s) ==
    /\ i' = s.i
    /\ bit_mask' = s.bit_mask
    /\ bit_pattern' = s.bit_pattern
    /\ args_pos' = s.args_pos
    /\ args_mask' = s.args_mask
    /\ prev' = s.prev
    /\ count' = s.count

\* lines 55-88 and 95-102: strip the spaces, choose the width, enter gen_code
bitmatch ==
    /\ pc = "bitmatch"
    /\ pattern' = replace_space(literal)
    /\ width' = dispatch(str_len(pattern'))
    /\ pc' = IF width' = 0 THEN "panic" ELSE "scan"
    /\ SetLoop(scan_init)
    /\ UNCHANGED <<literal, value, result>>

\* lines 104-143: one iteration of the loop
scan ==
    /\ pc = "scan"
    /\ i < Len(pattern)
    /\ SetLoop(scan_step(Loop, pattern[i + 1], str_len(pattern), width))
    /\ UNCHANGED <<literal, pattern, pc, width, value, result>>

\* lines 144-171: the trailing run, and the expression is emitted
finish ==
    /\ pc = "scan"
    /\ i = Len(pattern)
    /\ SetLoop(scan_end(Loop, width))
    /\ pc' = "emitted"
    /\ UNCHANGED <<literal, pattern, width, value, result>>

\* the emitted expression is evaluated at run time
eval ==
    /\ pc = "emitted"
    /\ \E v \in Values(width) :
          /\ value' = v
          /\ result' = emitted(v, width, bit_mask, bit_pattern,
                               args_pos, args_mask)
    /\ pc' = "done"
    /\ UNCHANGED <<literal, pattern, width, i, bit_mask, bit_pattern,
                   args_pos, args_mask, prev, count>>

Next == bitmatch \/ scan \/ finish \/ eval

Spec == Init /\ [][Next]_vars

----------------------------------------------------------------------------
(* What the specification says of a pattern, stated on the characters *)

Compiled == pc \in {"emitted", "done"}

CurrentPlan == MakePlan(width, Loop)

\* the fixed bits of pattern p agree with value v: character k (from 1) of
\* a pattern of L characters stands for bit L - k
FixedOK(p, v) ==
    \A k \in 1..Len(p) :
        (p[k] = "0" => (Len(p) - k) \notin v) /\
        (p[k] = "1" => (Len(p) - k) \in v)

\* length of the maximal run of identical characters of p that ends at e
RunLen(p, e) ==
    CHOOSE r \in 1..e :
        /\ \A k \in (e - r + 1)..e : p[k] = p[e]
        /\ (r = e \/ p[e - r] /= p[e])

\* the positions among the first n characters of p where a run of an
\* extractor label ends because a different character follows
ClosedEnds(p, n) ==
    {e \in 1..(n - 1) : IsLabel(p[e]) /\ p[e] /= p[e + 1]}

\* the positions of p where a maximal run of an extractor label ends
RunEnds(p) ==
    ClosedEnds(p, Len(p)) \cup
    (IF p /= <<>> /\ IsLabel(p[Len(p)]) THEN {Len(p)} ELSE {})

\* the k-th smallest element of a set of numbers
Kth(S, k) == CHOOSE x \in S : Cardinality({y \in S : y < x}) = k - 1

OnlyFixed(p) == Range(p) \subseteq {"0", "1", "_"}

\* value w differs from value v only at positions n of the pattern p
\* holding "_", or above the pattern
SameButDontCare(p, v, w) ==
    \A b \in (v \ w) \cup (w \ v) : b >= Len(p) \/ p[Len(p) - b] = "_"

Emitted(v) == emitted(v, width, bit_mask, bit_pattern, args_pos, args_mask)

----------------------------------------------------------------------------
(* C1 *)

\* C1: for a pattern made only of '0', '1' and '_', the emitted test
\* succeeds exactly when every fixed position of the pattern agrees with the
\* corresponding bit of the value, and a value that differs only at
\* don't-care positions gives the same outcome.
C1_FixedBitsTest ==
    (pc = "done" /\ OnlyFixed(pattern)) =>
        /\ result.tag \in {"Some", "None"}
        /\ (result.tag = "Some") <=> FixedOK(pattern, value)
        /\ result.tag = "Some" => (result.shape = "unit" /\ result.fields = <<>>)
        /\ \A v \in Values(width) :
              SameButDontCare(pattern, value, v) => Emitted(v) = result

\* a 16-bit pattern with fixed ones, a fixed zero and a don't-care bit
\* whose test succeeds
C1_Witness ==
    /\ pc = "done"
    /\ OnlyFixed(pattern)
    /\ Len(pattern) >= 9
    /\ {"0", "1", "_"} \subseteq Range(pattern)
    /\ result.tag = "Some"
    /\ \E v \in Values(width) :
          v /= value /\ SameButDontCare(pattern, value, v)

----------------------------------------------------------------------------
(* C7 *)

\* C7: after n characters have been scanned, bit n-1-k of bit_mask is set
\* exactly when character k is '0' or '1', bit n-1-k of bit_pattern exactly
\* when character k is '1', no higher bit is set, and bit_pattern has no
\* bit outside bit_mask.
C7_MaskExpectScan ==
    pc \in {"scan", "emitted", "done"} =>
        /\ i <= Len(pattern)
        /\ bit_mask = {i - k : k \in {j \in 1..i : pattern[j] \in {"0", "1"}}}
        /\ bit_pattern = {i - k : k \in {j \in 1..i : pattern[j] = "1"}}
        /\ bit_pattern \ bit_mask = {}
        /\ bit_mask \subseteq Bits(i)

\* in the scan of a pattern of more than 16 characters, with a fixed zero,
\* a fixed one and extractors already scanned
C7_Witness ==
    /\ pc = "scan"
    /\ i >= 17
    /\ \E j, k, l \in 1..i :
          pattern[j] = "0" /\ pattern[k] = "1" /\ IsLabel(pattern[l])

----------------------------------------------------------------------------
(* C8 *)

\* C8: after each step count is the length of the maximal run of identical
\* characters ending at the current position; the fields appended so far
\* are those of the positions where an extractor label was followed by a
\* different character, each with a mask of as many one-bits as that run
\* is long; and after the loop one more field is appended exactly when the
\* last character is an extractor label.
C8_RunTracking ==
    pc \in {"scan", "emitted", "done"} =>
        LET ends == IF pc = "scan" THEN ClosedEnds(pattern, i)
                    ELSE RunEnds(pattern)
        IN /\ i = 0 => (count = 0 /\ prev = <<>>)
           /\ i > 0 => (count = RunLen(pattern, i) /\ prev = <<pattern[i]>>)
           /\ Len(args_pos) = Cardinality(ends)
           /\ Len(args_mask) = Cardinality(ends)
           /\ \A k \in 1..Len(args_mask) :
                 args_mask[k] = Bits(RunLen(pattern, Kth(ends, k)))

\* in the scan, a run of two or more of a label that follows a fixed bit,
\* after an earlier field was closed
C8_Witness ==
    /\ pc = "scan"
    /\ Len(args_mask) >= 1
    /\ count >= 2
    /\ count < i
    /\ IsLabel(pattern[i])
    /\ ~IsLabel(pattern[i - count])

----------------------------------------------------------------------------
(* C5 *)

Whitespace == {" ", "\t"}

\* the string s without the characters of D
Without(s, D) == SelectSeq(s, LAMBDA c : c \notin D)

Decided == pc \in {"emitted", "panic"}

\* C5 as stated: a literal compiles to what the literal without any of
\* its whitespace characters compiles to (same width, mask, expect and
\* fields, or the same failure).
C5_AnyWhitespace ==
    Decided => CurrentPlan = compile(Without(literal, Whitespace))

\* C5: a literal holding space characters compiles to what the literal
\* without its spaces compiles to (same width, mask, expect and fields, or
\* the same failure); hence two literals that differ only by spaces compile
\* alike.
C5_Spaces ==
    (Decided /\ " " \in Range(literal)) =>
        CurrentPlan = compile(Without(literal, {" "}))

\* a literal with a space inside, compiled to a 16-bit plan with two fields
C5_Witness ==
    /\ pc = "emitted"
    /\ \E k \in 2..(Len(literal) - 1) : literal[k] = " "
    /\ width = 16
    /\ Len(args_pos) >= 2

----------------------------------------------------------------------------
(* C2 *)

OneByte(p) == \A k \in 1..Len(p) : len_utf8(p[k]) = 1

\* the fields of pattern p by the specification: one per maximal run of a
\* label, left to right, at the bit of the run's last character
RefPos(p) ==
    [k \in 1..Cardinality(RunEnds(p)) |-> Len(p) - Kth(RunEnds(p), k)]

RefMask(p) ==
    [k \in 1..Cardinality(RunEnds(p)) |->
        Bits(RunLen(p, Kth(RunEnds(p), k)))]

\* C2 as stated: the compiled fields are the maximal runs of identical
\* extractor characters, left to right, the k-th with offset L - 1 - (index
\* of the run's last character) and a mask of run-length one-bits.
C2_FieldList ==
    Compiled => (args_pos = RefPos(pattern) /\ args_mask = RefMask(pattern))

\* the same for patterns whose characters are all one byte long
C2_FieldListOneByte ==
    (Compiled /\ OneByte(pattern)) =>
        (args_pos = RefPos(pattern) /\ args_mask = RefMask(pattern))

----------------------------------------------------------------------------
(* C3 *)

\* the bits of v under the run of p that ends at character e, as a number
Under(p, v, e) ==
    {b - (Len(p) - e) :
        b \in v \cap ((Len(p) - e)..(Len(p) - e + RunLen(p, e) - 1))}

RefResult(p, v) ==
    IF FixedOK(p, v)
    THEN [tag |-> "Some", shape |-> shape(Cardinality(RunEnds(p))),
          fields |-> [k \in 1..Cardinality(RunEnds(p)) |->
                         Under(p, v, Kth(RunEnds(p), k))]]
    ELSE [tag |-> "None", shape |-> "none", fields |-> <<>>]

Some(ns) == [tag |-> "Some", shape |-> shape(Len(ns)),
             fields |-> [k \in 1..Len(ns) |-> OfNat(ns[k])]]

\* the results the documentation example states, lines 16-34
DocResults ==
    { <<<<"1","0","1","0"," ","1","1","0","0">>, Some(<<>>)>>,
      <<<<"1","0","1","0"," ","0","1","0","0">>,
        [tag |-> "None", shape |-> "none", fields |-> <<>>]>>,
      <<<<"1","_","1","0"," ","1","_","0","0">>, Some(<<>>)>>,
      <<<<"1","a","1","0"," ","1","1","0","0">>, Some(<<0>>)>>,
      <<<<"1","0","a","0"," ","1","1","0","0">>, Some(<<1>>)>>,
      <<<<"1","a","a","a"," ","a","1","0","0">>, Some(<<5>>)>>,
      <<<<"1","a","a","0"," ","a","a","0","0">>, Some(<<1, 3>>)>>,
      <<<<"1","a","a","b"," ","b","c","c","c">>, Some(<<1, 1, 4>>)>> }

DocHolds ==
    \A d \in DocResults :
        (pc = "done" /\ literal = d[1] /\ value = OfNat(DocValue)) =>
            result = d[2]

\* C3 as stated: the result is None when the fixed bits do not match, and
\* otherwise Some of, in field order, the number spelled by the value's bits
\* under each run (unit for no run, a scalar for one, a tuple for more);
\* and the documentation example's results.
C3_Result ==
    /\ pc = "done" => result = RefResult(pattern, value)
    /\ DocHolds

\* the same for patterns whose characters are all one byte long
C3_ResultOneByte ==
    /\ (pc = "done" /\ OneByte(pattern)) => result = RefResult(pattern, value)
    /\ DocHolds

----------------------------------------------------------------------------
(* C4 *)

\* the width the specification's table gives a pattern of L characters
RefWidth(L) ==
    IF L = 0 \/ L > 128 THEN 0
    ELSE CHOOSE w \in {8, 16, 32, 64, 128} :
            L <= w /\ \A u \in {8, 16, 32, 64, 128} : L <= u => w <= u

\* C4 as stated: the width is the table's for the number L of characters
\* of the stripped pattern; L = 0 and L > 128 fail and nothing is compiled;
\* in every successful case L <= W.
C4_WidthByChars ==
    pc /= "bitmatch" =>
        /\ width = RefWidth(Len(pattern))
        /\ (pc = "panic") <=> (Len(pattern) = 0 \/ Len(pattern) > 128)
        /\ pc = "panic" => (CurrentPlan = MakePlan(0, scan_init)
                            /\ result = NoResult)
        /\ pc /= "panic" => Len(pattern) <= width

\* the same for patterns whose characters are all one byte long
C4_WidthOneByte ==
    (pc /= "bitmatch" /\ OneByte(pattern)) =>
        /\ width = RefWidth(Len(pattern))
        /\ (pc = "panic") <=> (Len(pattern) = 0 \/ Len(pattern) > 128)
        /\ pc = "panic" => (CurrentPlan = MakePlan(0, scan_init)
                            /\ result = NoResult)
        /\ pc /= "panic" => Len(pattern) <= width

----------------------------------------------------------------------------
(* C6 *)

\* pattern p with the run ending at e given the label c
Relabel(p, e, c) ==
    [k \in 1..Len(p) |->
        IF k > e - RunLen(p, e) /\ k <= e THEN c ELSE p[k]]

\* c differs from the characters next to the run of p ending at e
Admissible(p, e, c) ==
    /\ (e = RunLen(p, e) \/ p[e - RunLen(p, e)] /= c)
    /\ (e = Len(p) \/ p[e + 1] /= c)

Relabelling(cs) ==
    Decided =>
        \A e \in RunEnds(pattern) : \A c \in cs :
            Admissible(pattern, e, c) =>
                compile_pattern(Relabel(pattern, e, c)) = CurrentPlan

\* C6 as stated: giving one run any other label, of any encoded size, that
\* differs from its neighbours leaves width, mask, expect and fields as
\* they are.
C6_AnyLabel == Relabelling({"a", "b", "c", "\t", "U+00E9"})

\* the same when the pattern and the new label are one byte per character
C6_OneByteLabel == OneByte(pattern) => Relabelling({"a", "b", "c", "\t"})

----------------------------------------------------------------------------
(* C9 *)

NoOverflow ==
    /\ \A k \in 1..Len(args_pos) :
          /\ args_pos[k] < width
          /\ args_mask[k] \subseteq Bits(width)
    /\ Len(pattern) <= width
    /\ pc = "done" => result.tag /= "overflow"
    /\ (Len(pattern) = width /\ RunLen(pattern, width) = width
        /\ IsLabel(pattern[1])) =>
          (args_pos = <<0>> /\ args_mask = <<Bits(width)>>)

\* C9 as stated: every offset is below W, offset + run length <= L <= W,
\* every mask fits in W bits, and a run of W characters has offset 0 and a
\* mask of W one-bits.
C9_InWidth ==
    Compiled =>
        /\ NoOverflow
        /\ \A k \in 1..Len(args_pos) :
              args_pos[k] + Cardinality(args_mask[k]) <= Len(pattern)

\* the part of C9 that is about overflow, with the fields kept within
\* pattern.len() bits
C9_InWidthBytes ==
    Compiled =>
        /\ NoOverflow
        /\ \A k \in 1..Len(args_pos) :
              args_pos[k] + Cardinality(args_mask[k]) <= str_len(pattern)
        /\ str_len(pattern) <= width

----------------------------------------------------------------------------
(* C10 *)

LowBitsOnly(L) ==
    pc = "done" =>
        \A v \in Values(width) :
            (v \cap Bits(L) = value \cap Bits(L)) => Emitted(v) = result

\* C10 as stated: the result depends only on the low L bits of the value,
\* L the length of the pattern.
C10_LowBits == LowBitsOnly(Len(pattern))

\* the same with L the length of the pattern in bytes
C10_LowBytes == LowBitsOnly(str_len(pattern))

\* the state machine and the functional form of the compiler agree
PlanIsCompile == Decided => CurrentPlan = compile(literal)

====
